---- MODULE Spec2Model ----
(***************************************************************************)
(* A model of the trading-bias forecaster: the BiasCalculator engine       *)
(* (calculator.js), which classifies two daily OHLC bars (D-2 = "dbpd",    *)
(* D-1 = "pd"), accumulates a signed confluence score and resolves one     *)
(* bias verdict with trade setups.                                         *)
(*                                                                         *)
(* Prices are whole numbers (1104 is the price 1104), on which the         *)
(* subtractions of the code are exact in IEEE-754 arithmetic.  Every       *)
(* comparison the code makes on a quotient is made here on the exact       *)
(* quotient, with the IEEE-754 outcomes for a zero divisor (NaN,           *)
(* Infinity) spelled out.  Values rendered by toFixed(5) are integers      *)
(* counting 0.00001.                                                       *)
(*                                                                         *)
(* Around the engine, the page (main.js) and its StorageManager            *)
(* (storage.js): the form handler validates the eight fields, runs the     *)
(* engine, shows the result, schedules the checklist update and saves the  *)
(* analysis to the history kept in localStorage.  The symbol field and the *)
(* chart drawn under the results are left out: no handler reads them back. *)
(***************************************************************************)
EXTENDS Integers, Sequences, FiniteSets

VARIABLES
    calc,       \* the BiasCalculator instance: the fields the constructor sets
    results,    \* the analysis objects calculateBias has returned on it, oldest first
    formData,   \* the form fields handleFormSubmit (or validateInputs) was given
    validation, \* what validateInputs returned on them, and the alert it raised
    panel,      \* resultsContainer: what displayResults rendered last
    timers,     \* the pending setTimeout callbacks, oldest first: their bias argument
    checklist,  \* the checklist card: which checklist updateChecklistByBias put there
    history,    \* localStorage 'tradingBiasHistory': the entries, newest first
    historyView,\* historyContainer: the rows renderHistory rendered last
    now,        \* the clock Date.now() reads
    checklistState, \* localStorage 'tradingChecklist': the stored check marks
    called      \* the last call made on the StorageManager directly

\* The state of the page and of the storage.
appVars == <<formData, validation, panel, timers, checklist, history,
             historyView, now, checklistState, called>>

vars == <<calc, results, formData, validation, panel, timers, checklist,
          history, historyView, now, checklistState, called>>

-----------------------------------------------------------------------------
(* Bounds of the model *)

\* The grid of prices is BasePrice+1 .. BasePrice+MaxTicks.
BasePrice == 1100
MaxTicks == 6
\* The number of calculateBias invocations on one instance.
MaxCalls == 1
\* The numbers typed in a form field are BasePrice+1 .. BasePrice+MaxFormTicks.
MaxFormTicks == 3
\* The number of accepted submissions of the form, and the last value of
\* the clock.
MaxSubmits == 2
MaxClock == 1
\* The number of results logged when instances are constructed in turn.
MaxLog == 3

-----------------------------------------------------------------------------
(* Number helpers: what the JavaScript operators do on these values *)

Abs(x) == IF x < 0 THEN -x ELSE x
Max(a, b) == IF a > b THEN a ELSE b
Min(a, b) == IF a < b THEN a ELSE b

\* (num / den) * 100 < k, as IEEE-754 decides it: a zero divisor gives NaN
\* (0/0, every comparison false) or +/-Infinity.
PctLess(num, den, k) ==
    IF den > 0 THEN 100 * num < k * den
    ELSE IF den < 0 THEN 100 * num > k * den
    ELSE num < 0

\* Mutant: the threshold itself counts as greater.
PctGreaterOrEqual(num, den, k) ==
    IF den > 0 THEN 100 * num >= k * den
    ELSE IF den < 0 THEN 100 * num <= k * den
    ELSE num > 0

\* (num / den) * 100 > k, likewise.
PctGreater(num, den, k) ==
    IF den > 0 THEN 100 * num > k * den
    ELSE IF den < 0 THEN 100 * num < k * den
    ELSE num > 0

\* The integer nearest to num/den, ties away from zero (den # 0): the
\* rounding of Number.prototype.toFixed.
RoundDiv(num, den) ==
    LET n == Abs(num)
        d == Abs(den)
        q == (n \div d) + (IF 2 * (n % d) >= d THEN 1 ELSE 0)
    IN  IF (num < 0) # (den < 0) THEN -q ELSE q

\* ((num / den) * 100).toFixed(1): a number of tenths, or the strings
\* "NaN" and "Infinity" that toFixed renders for those values.
ToFixed1(num, den) ==
    IF den # 0 THEN [kind |-> "number", tenths |-> RoundDiv(1000 * num, den)]
    ELSE IF num = 0 THEN [kind |-> "NaN", tenths |-> 0]
    ELSE IF num > 0 THEN [kind |-> "Infinity", tenths |-> 0]
    ELSE [kind |-> "-Infinity", tenths |-> 0]

\* (num / den).toFixed(5) for a price num/den (den > 0): the number of
\* 0.00001 units it renders, the whole part and the fraction apart.
ToFixed5(num, den) ==
    LET n == Abs(num)
        q == (n \div den) * 100000 + RoundDiv(100000 * (n % den), den)
    IN  IF num < 0 THEN -q ELSE q

\* A price printed as it is (`${this.pdHigh}`), in the units of ToFixed5.
Plain(p) == 100000 * p

-----------------------------------------------------------------------------
(* Candle Classifier *)

\* Mutant: the doji threshold is 5% instead of 10%.
IsDojiFivePercent(body, range) == PctLess(body, range, 5)

\* Mutant: a doji needs a body, so close = open is left unclassified.
IsDojiNonZero(body, range) == body > 0 /\ PctLess(body, range, 10)

\* const isDoji = bodyPercent < 10
IsDoji(body, range) == PctLess(body, range, 10)

analyzeCandleType(open, close, high, low) ==
    LET body == Abs(close - open)
        range == high - low
        upperWick == high - Max(open, close)
        lowerWick == Min(open, close) - low
        isBullish == close > open
        isBearish == close < open
        isDoji == IsDoji(body, range)
        type ==
            IF isDoji THEN "DOJI"
            ELSE IF isBullish THEN
                IF PctGreater(body, range, 70) THEN "STRONG BULLISH"
                ELSE IF PctGreater(body, range, 50) THEN "BULLISH"
                ELSE "WEAK BULLISH"
            ELSE IF isBearish THEN
                IF PctGreater(body, range, 70) THEN "STRONG BEARISH"
                ELSE IF PctGreater(body, range, 50) THEN "BEARISH"
                ELSE "WEAK BEARISH"
            ELSE "NEUTRAL"
        strength ==
            IF isDoji THEN 0
            ELSE IF isBullish THEN
                IF PctGreater(body, range, 70) THEN 3
                ELSE IF PctGreater(body, range, 50) THEN 2
                ELSE 1
            ELSE IF isBearish THEN
                IF PctGreater(body, range, 70) THEN -3
                ELSE IF PctGreater(body, range, 50) THEN -2
                ELSE -1
            ELSE 0
    IN  [type |-> type,
         isBullish |-> isBullish,
         isBearish |-> isBearish,
         isDoji |-> isDoji,
         strength |-> strength,
         body |-> body,
         bodyPercent |-> ToFixed1(body, range),
         upperWick |-> upperWick,
         lowerWick |-> lowerWick,
         hasUpperWickRejection |-> upperWick > body * 2,
         hasLowerWickRejection |-> lowerWick > body * 2,
         open |-> open,
         close |-> close,
         high |-> high,
         low |-> low]

\* new BiasCalculator(data): data holds the eight numeric fields.  The
\* midpoints (high + low) / 2 are kept doubled, which keeps them whole.
BiasCalculator(data) ==
    [dbpdHigh |-> data.dbpdHigh,
     dbpdLow |-> data.dbpdLow,
     dbpdOpen |-> data.dbpdOpen,
     dbpdClose |-> data.dbpdClose,
     pdHigh |-> data.pdHigh,
     pdLow |-> data.pdLow,
     pdOpen |-> data.pdOpen,
     pdClose |-> data.pdClose,
     dbpdCandle |-> analyzeCandleType(data.dbpdOpen, data.dbpdClose,
                                      data.dbpdHigh, data.dbpdLow),
     pdCandle |-> analyzeCandleType(data.pdOpen, data.pdClose,
                                    data.pdHigh, data.pdLow),
     pdMidpoint2 |-> data.pdHigh + data.pdLow,
     pdRange |-> data.pdHigh - data.pdLow,
     dbpdMidpoint2 |-> data.dbpdHigh + data.dbpdLow,
     dbpdRange |-> data.dbpdHigh - data.dbpdLow]

-----------------------------------------------------------------------------
(* The analysis object *)

\* One entry of analysis.reasoning: the template that was pushed and the
\* values interpolated into it.
Note(msg) ==
    [msg |-> msg, candle |-> "", pct |-> [kind |-> "none", tenths |-> 0],
     p |-> 0, q |-> 0]

CandleNote(msg, candle) ==
    [msg |-> msg, candle |-> candle.type, pct |-> candle.bodyPercent,
     p |-> 0, q |-> 0]

LevelNote(msg, p, q) ==
    [msg |-> msg, candle |-> "", pct |-> [kind |-> "none", tenths |-> 0],
     p |-> p, q |-> q]

\* analysis.scenario starts as {}: a flag that was never set reads as
\* undefined, which every test of it treats as false.
NoScenario ==
    [reversalUp |-> FALSE, reversalDown |-> FALSE,
     upperRejection |-> FALSE, lowerRejection |-> FALSE,
     indecision |-> FALSE,
     breakoutHigh |-> FALSE, fakeBreakoutHigh |-> FALSE,
     breakoutLow |-> FALSE, fakeBreakoutLow |-> FALSE,
     insideBar |-> FALSE, outsideBar |-> FALSE,
     uptrend |-> FALSE, downtrend |-> FALSE]

\* The empty object {} a setup starts as.
EmptySetup == [empty |-> TRUE]

Setup(sweepLevel, from, to, invalidation, targets) ==
    [empty |-> FALSE,
     sweepLevel |-> sweepLevel,
     entryZone |-> [from |-> from, to |-> to],
     invalidation |-> invalidation,
     targets |-> targets]

Target(level, label) == [level |-> level, label |-> label]

\* Mutant: the accumulator is kept between calls instead of starting
\* afresh: confluence and reasoning continue from the last result.
NewAnalysisKept(c) ==
    [bias |-> "NEUTRAL",
     direction |-> "No Clear Direction",
     strength |-> 0,
     reasoning |-> IF results = << >> THEN << >>
                   ELSE results[Len(results)].reasoning,
     candleAnalysis |-> [dbpd |-> c.dbpdCandle, pd |-> c.pdCandle],
     scenario |-> NoScenario,
     recommendation |-> [kind |-> ""],
     bullishSetup |-> EmptySetup,
     bearishSetup |-> EmptySetup,
     keyLevels |-> [set |-> FALSE],
     confluence |-> IF results = << >> THEN 0
                    ELSE results[Len(results)].confluence]

\* The object calculateBias starts from.
NewAnalysis(c) ==
    [bias |-> "NEUTRAL",
     direction |-> "No Clear Direction",
     strength |-> 0,
     reasoning |-> << >>,
     candleAnalysis |-> [dbpd |-> c.dbpdCandle, pd |-> c.pdCandle],
     scenario |-> NoScenario,
     recommendation |-> [kind |-> ""],
     bullishSetup |-> EmptySetup,
     bearishSetup |-> EmptySetup,
     keyLevels |-> [set |-> FALSE],
     confluence |-> 0]

\* analysis.confluence += delta; analysis.reasoning.push(note)
\* Mutant: a delta replaces the confluence instead of adding to it.
ScoreAssign(a, delta, note) ==
    [a EXCEPT !.confluence = delta, !.reasoning = Append(@, note)]

Score(a, delta, note) ==
    [a EXCEPT !.confluence = @ + delta, !.reasoning = Append(@, note)]

\* analysis.reasoning.push(note)
Push(a, note) == [a EXCEPT !.reasoning = Append(@, note)]

-----------------------------------------------------------------------------
(* Structure Analyzer: candle patterns *)

analyzeCandlePatterns(c, a) ==
    LET d2 == c.dbpdCandle
        d1 == c.pdCandle
        a1 == Push(Push(a, CandleNote("D-2 Candle", d2)),
                   CandleNote("D-1 Candle", d1))
        a2 == IF d2.isBullish /\ d1.isBullish
              THEN Score(a1, 2, Note("Two consecutive BULLISH candles"))
              ELSE a1
        a3 == IF d2.isBearish /\ d1.isBearish
              THEN Score(a2, -2, Note("Two consecutive BEARISH candles"))
              ELSE a2
        a4 == IF d2.isBearish /\ d1.isBullish
              THEN [Score(a3, 1, Note("REVERSAL: Bearish to Bullish candle"))
                        EXCEPT !.scenario.reversalUp = TRUE]
              ELSE a3
        a5 == IF d2.isBullish /\ d1.isBearish
              THEN [Score(a4, -1, Note("REVERSAL: Bullish to Bearish candle"))
                        EXCEPT !.scenario.reversalDown = TRUE]
              ELSE a4
        a6 == IF d1.hasUpperWickRejection
              THEN [Score(a5, -1, Note("UPPER WICK REJECTION"))
                        EXCEPT !.scenario.upperRejection = TRUE]
              ELSE a5
        a7 == IF d1.hasLowerWickRejection
              THEN [Score(a6, 1, Note("LOWER WICK REJECTION"))
                        EXCEPT !.scenario.lowerRejection = TRUE]
              ELSE a6
        a8 == IF d1.isDoji
              THEN [Push(a7, Note("DOJI candle"))
                        EXCEPT !.scenario.indecision = TRUE]
              ELSE a7
    IN  IF d1.strength >= 2 THEN Push(a8, Note("Strong bullish momentum"))
        ELSE IF d1.strength <= -2 THEN Push(a8, Note("Strong bearish momentum"))
        ELSE a8

-----------------------------------------------------------------------------
(* Structure Analyzer: price structure *)

\* The tests of analyzePriceStructure, in the order it makes them.
BrokeHigh(c) == c.pdHigh > c.dbpdHigh
ClosedAboveHigh(c) == c.pdClose > c.dbpdHigh
\* Mutant: a low equal to D-2's counts as broken.
BrokeLowOrAt(c) == c.pdLow <= c.dbpdLow
BrokeLow(c) == c.pdLow < c.dbpdLow
\* Mutant: a close at D-2's low counts as a close below it.
ClosedBelowLowOrAt(c) == c.pdClose <= c.dbpdLow
ClosedBelowLow(c) == c.pdClose < c.dbpdLow
\* Mutant: the inside-bar test with strict comparisons.
IsInsideBarStrict(c) == c.pdHigh < c.dbpdHigh /\ c.pdLow > c.dbpdLow
\* Mutant: the inside-bar test with the two bars exchanged.
IsInsideBarSwapped(c) == c.dbpdHigh <= c.pdHigh /\ c.dbpdLow >= c.pdLow
IsInsideBar(c) == c.pdHigh <= c.dbpdHigh /\ c.pdLow >= c.dbpdLow
\* Mutant: one broken side makes an outside bar.
IsOutsideBarEither(c) == c.pdHigh > c.dbpdHigh \/ c.pdLow < c.dbpdLow
IsOutsideBar(c) == c.pdHigh > c.dbpdHigh /\ c.pdLow < c.dbpdLow
\* Mutant: a higher high alone makes an uptrend.
IsUptrendHighOnly(c) == c.pdHigh > c.dbpdHigh
IsUptrend(c) == c.pdHigh > c.dbpdHigh /\ c.pdLow > c.dbpdLow
IsDowntrend(c) == c.pdHigh < c.dbpdHigh /\ c.pdLow < c.dbpdLow

analyzePriceStructure(c, a) ==
    LET a1 == IF BrokeHigh(c)
              THEN LET b == [Score(a, 1, LevelNote("PD HIGH broke D-2 HIGH",
                                                   c.pdHigh, c.dbpdHigh))
                                 EXCEPT !.scenario.breakoutHigh = TRUE]
                   IN  IF ClosedAboveHigh(c)
                       THEN Score(b, 1, Note("PD CLOSED above D-2 high"))
                       ELSE [Push(b, Note("PD swept high but closed inside"))
                                 EXCEPT !.scenario.fakeBreakoutHigh = TRUE]
              ELSE a
        a2 == IF BrokeLow(c)
              THEN LET b == [Score(a1, -1, LevelNote("PD LOW broke D-2 LOW",
                                                     c.pdLow, c.dbpdLow))
                                 EXCEPT !.scenario.breakoutLow = TRUE]
                   IN  IF ClosedBelowLow(c)
                       THEN Score(b, -1, Note("PD CLOSED below D-2 low"))
                       ELSE [Push(b, Note("PD swept low but closed inside"))
                                 EXCEPT !.scenario.fakeBreakoutLow = TRUE]
              ELSE a1
        a3 == IF IsInsideBar(c)
              THEN [Push(a2, Note("INSIDE BAR pattern"))
                        EXCEPT !.scenario.insideBar = TRUE]
              ELSE a2
        a4 == IF IsOutsideBar(c)
              THEN LET b == [Push(a3, Note("OUTSIDE BAR pattern"))
                                 EXCEPT !.scenario.outsideBar = TRUE]
                   IN  IF c.pdClose > c.pdOpen
                       THEN [Push(b, Note("Outside bar closed BULLISH"))
                                 EXCEPT !.confluence = @ + 2]
                       ELSE [Push(b, Note("Outside bar closed BEARISH"))
                                 EXCEPT !.confluence = @ - 2]
              ELSE a3
        a5 == IF IsUptrend(c)
              THEN [Push(a4, Note("HIGHER HIGHS & HIGHER LOWS"))
                        EXCEPT !.scenario.uptrend = TRUE,
                               !.confluence = @ + 2]
              ELSE a4
    IN  IF IsDowntrend(c)
        THEN [Push(a5, Note("LOWER HIGHS & LOWER LOWS"))
                  EXCEPT !.scenario.downtrend = TRUE,
                         !.confluence = @ - 2]
        ELSE a5

-----------------------------------------------------------------------------
(* Structure Analyzer: key levels and close position *)

analyzeLiquiditySweeps(c, a) ==
    LET a1 == [a EXCEPT !.keyLevels =
                  [set |-> TRUE,
                   pdHigh |-> c.pdHigh, pdLow |-> c.pdLow,
                   pdOpen |-> c.pdOpen, pdClose |-> c.pdClose,
                   pdMid2 |-> c.pdMidpoint2,
                   dbpdHigh |-> c.dbpdHigh, dbpdLow |-> c.dbpdLow,
                   dbpdOpen |-> c.dbpdOpen, dbpdClose |-> c.dbpdClose,
                   dbpdMid2 |-> c.dbpdMidpoint2]]
    IN  IF PctGreater(c.pdClose - c.pdLow, c.pdRange, 75)
        THEN Score(a1, 1, Note("PD closed in upper 25% of range"))
        ELSE IF PctLess(c.pdClose - c.pdLow, c.pdRange, 25)
        THEN Score(a1, -1, Note("PD closed in lower 25% of range"))
        ELSE Push(a1, Note("PD closed in middle of range"))

-----------------------------------------------------------------------------
(* Bias Resolver *)

\* SCENARIO 1: fake breakout high
FakeBreakoutHighVerdict(c, a) ==
    [a EXCEPT
        !.bias = "BEARISH REVERSAL",
        !.direction = "LOOK FOR SELL",
        !.strength = 85,
        !.reasoning = <<Note("FORECAST: SELL THE HIGH")>> \o @,
        !.bearishSetup =
            Setup(c.pdHigh,
                  Plain(c.pdHigh), ToFixed5(c.pdHigh * 10005, 10000),
                  ToFixed5(10 * c.pdHigh + 3 * c.pdRange, 10),
                  <<Target(ToFixed5(c.pdClose, 1), "PD Close"),
                    Target(ToFixed5(c.pdLow, 1), "PD Low"),
                    Target(ToFixed5(c.dbpdLow, 1), "D-2 Low")>>)]

\* SCENARIO 2: fake breakout low
FakeBreakoutLowVerdict(c, a) ==
    [a EXCEPT
        !.bias = "BULLISH REVERSAL",
        !.direction = "LOOK FOR BUY",
        !.strength = 85,
        !.reasoning = <<Note("FORECAST: BUY THE DIP")>> \o @,
        !.bullishSetup =
            Setup(c.pdLow,
                  ToFixed5(c.pdLow * 9995, 10000), Plain(c.pdLow),
                  ToFixed5(10 * c.pdLow - 3 * c.pdRange, 10),
                  <<Target(ToFixed5(c.pdClose, 1), "PD Close"),
                    Target(ToFixed5(c.pdHigh, 1), "PD High"),
                    Target(ToFixed5(c.dbpdHigh, 1), "D-2 High")>>)]

\* Mutant: the strength is capped with Math.max instead of Math.min.
UptrendVerdictMax(c, a) ==
    [a EXCEPT
        !.bias = "BULLISH CONTINUATION",
        !.direction = "BUY PULLBACKS",
        !.strength = Max(75 + (a.confluence * 3), 95),
        !.reasoning = <<Note("FORECAST: BUY dips to PD low")>> \o @,
        !.bullishSetup =
            Setup(c.pdLow,
                  ToFixed5(10 * c.pdLow - 2 * c.pdRange, 10), Plain(c.pdLow),
                  ToFixed5(c.dbpdLow, 1),
                  <<Target(ToFixed5(c.pdHigh, 1), "Equal PD High"),
                    Target(ToFixed5(2 * c.pdHigh + c.pdRange, 2), "Extension 1"),
                    Target(ToFixed5(c.pdHigh + c.pdRange, 1), "Extension 2")>>)]

\* SCENARIO 3: uptrend continuation
UptrendVerdict(c, a) ==
    [a EXCEPT
        !.bias = "BULLISH CONTINUATION",
        !.direction = "BUY PULLBACKS",
        !.strength = Min(75 + (a.confluence * 3), 95),
        !.reasoning = <<Note("FORECAST: BUY dips to PD low")>> \o @,
        !.bullishSetup =
            Setup(c.pdLow,
                  ToFixed5(10 * c.pdLow - 2 * c.pdRange, 10), Plain(c.pdLow),
                  ToFixed5(c.dbpdLow, 1),
                  <<Target(ToFixed5(c.pdHigh, 1), "Equal PD High"),
                    Target(ToFixed5(2 * c.pdHigh + c.pdRange, 2), "Extension 1"),
                    Target(ToFixed5(c.pdHigh + c.pdRange, 1), "Extension 2")>>)]

\* Mutant: the downtrend strength uses the signed confluence.
DowntrendVerdictSigned(c, a) ==
    [a EXCEPT
        !.bias = "BEARISH CONTINUATION",
        !.direction = "SELL RALLIES",
        !.strength = Min(75 + (a.confluence * 3), 95),
        !.reasoning = <<Note("FORECAST: SELL rallies to PD high")>> \o @,
        !.bearishSetup =
            Setup(c.pdHigh,
                  Plain(c.pdHigh), ToFixed5(10 * c.pdHigh + 2 * c.pdRange, 10),
                  ToFixed5(c.dbpdHigh, 1),
                  <<Target(ToFixed5(c.pdLow, 1), "Equal PD Low"),
                    Target(ToFixed5(2 * c.pdLow - c.pdRange, 2), "Extension 1"),
                    Target(ToFixed5(c.pdLow - c.pdRange, 1), "Extension 2")>>)]

\* SCENARIO 4: downtrend continuation
DowntrendVerdict(c, a) ==
    [a EXCEPT
        !.bias = "BEARISH CONTINUATION",
        !.direction = "SELL RALLIES",
        !.strength = Min(75 + (Abs(a.confluence) * 3), 95),
        !.reasoning = <<Note("FORECAST: SELL rallies to PD high")>> \o @,
        !.bearishSetup =
            Setup(c.pdHigh,
                  Plain(c.pdHigh), ToFixed5(10 * c.pdHigh + 2 * c.pdRange, 10),
                  ToFixed5(c.dbpdHigh, 1),
                  <<Target(ToFixed5(c.pdLow, 1), "Equal PD Low"),
                    Target(ToFixed5(2 * c.pdLow - c.pdRange, 2), "Extension 1"),
                    Target(ToFixed5(c.pdLow - c.pdRange, 1), "Extension 2")>>)]

\* Mutant: the undecided inside bar is labelled NEUTRAL-WAIT, without
\* the spaces.
InsideBarVerdictHyphen(c, a) ==
    [a EXCEPT
        !.reasoning = <<Note("FORECAST: Inside bar")>> \o @,
        !.bias = IF c.pdCandle.isBullish THEN "BULLISH BREAKOUT"
                 ELSE IF c.pdCandle.isBearish THEN "BEARISH BREAKOUT"
                 ELSE "NEUTRAL-WAIT",
        !.direction = IF c.pdCandle.isBullish THEN "BUY ABOVE PD HIGH"
                      ELSE IF c.pdCandle.isBearish THEN "SELL BELOW PD LOW"
                      ELSE "TRADE BREAKOUT",
        !.strength = IF c.pdCandle.isBullish THEN 70
                     ELSE IF c.pdCandle.isBearish THEN 70
                     ELSE 50,
        !.bullishSetup =
            Setup(c.pdHigh,
                  Plain(c.pdHigh), ToFixed5(c.pdHigh * 1001, 1000),
                  ToFixed5(c.pdLow, 1),
                  <<Target(ToFixed5(c.dbpdHigh, 1), "D-2 High"),
                    Target(ToFixed5(c.dbpdHigh + c.pdRange, 1), "Measured Move")>>),
        !.bearishSetup =
            Setup(c.pdLow,
                  ToFixed5(c.pdLow * 999, 1000), Plain(c.pdLow),
                  ToFixed5(c.pdHigh, 1),
                  <<Target(ToFixed5(c.dbpdLow, 1), "D-2 Low"),
                    Target(ToFixed5(c.dbpdLow - c.pdRange, 1), "Measured Move")>>)]

\* SCENARIO 5: inside bar, both ways
InsideBarVerdict(c, a) ==
    [a EXCEPT
        !.reasoning = <<Note("FORECAST: Inside bar")>> \o @,
        !.bias = IF c.pdCandle.isBullish THEN "BULLISH BREAKOUT"
                 ELSE IF c.pdCandle.isBearish THEN "BEARISH BREAKOUT"
                 ELSE "NEUTRAL - WAIT",
        !.direction = IF c.pdCandle.isBullish THEN "BUY ABOVE PD HIGH"
                      ELSE IF c.pdCandle.isBearish THEN "SELL BELOW PD LOW"
                      ELSE "TRADE BREAKOUT",
        !.strength = IF c.pdCandle.isBullish THEN 70
                     ELSE IF c.pdCandle.isBearish THEN 70
                     ELSE 50,
        !.bullishSetup =
            Setup(c.pdHigh,
                  Plain(c.pdHigh), ToFixed5(c.pdHigh * 1001, 1000),
                  ToFixed5(c.pdLow, 1),
                  <<Target(ToFixed5(c.dbpdHigh, 1), "D-2 High"),
                    Target(ToFixed5(c.dbpdHigh + c.pdRange, 1), "Measured Move")>>),
        !.bearishSetup =
            Setup(c.pdLow,
                  ToFixed5(c.pdLow * 999, 1000), Plain(c.pdLow),
                  ToFixed5(c.pdHigh, 1),
                  <<Target(ToFixed5(c.dbpdLow, 1), "D-2 Low"),
                    Target(ToFixed5(c.dbpdLow - c.pdRange, 1), "Measured Move")>>)]

\* General bias: confluence >= 3
BullishVerdict(c, a) ==
    [a EXCEPT
        !.bias = "BULLISH",
        !.direction = "LOOK FOR BUY SETUPS",
        !.strength = Min(60 + (a.confluence * 5), 95),
        !.bullishSetup =
            Setup(c.pdLow,
                  ToFixed5(100 * c.pdLow - 15 * c.pdRange, 100), Plain(c.pdLow),
                  ToFixed5(c.dbpdLow, 1),
                  <<Target(ToFixed5(c.pdHigh, 1), "PD High"),
                    Target(ToFixed5(1000 * c.pdHigh + 618 * c.pdRange, 1000),
                           "1.618 Extension")>>)]

\* Mutant: the bearish verdict fills in the bullish setup.
BearishVerdictWrongSide(c, a) ==
    [a EXCEPT
        !.bias = "BEARISH",
        !.direction = "LOOK FOR SELL SETUPS",
        !.strength = Min(60 + (Abs(a.confluence) * 5), 95),
        !.bullishSetup =
            Setup(c.pdHigh,
                  Plain(c.pdHigh), ToFixed5(100 * c.pdHigh + 15 * c.pdRange, 100),
                  ToFixed5(c.dbpdHigh, 1),
                  <<Target(ToFixed5(c.pdLow, 1), "PD Low"),
                    Target(ToFixed5(1000 * c.pdLow - 618 * c.pdRange, 1000),
                           "1.618 Extension")>>)]

\* General bias: confluence <= -3
BearishVerdict(c, a) ==
    [a EXCEPT
        !.bias = "BEARISH",
        !.direction = "LOOK FOR SELL SETUPS",
        !.strength = Min(60 + (Abs(a.confluence) * 5), 95),
        !.bearishSetup =
            Setup(c.pdHigh,
                  Plain(c.pdHigh), ToFixed5(100 * c.pdHigh + 15 * c.pdRange, 100),
                  ToFixed5(c.dbpdHigh, 1),
                  <<Target(ToFixed5(c.pdLow, 1), "PD Low"),
                    Target(ToFixed5(1000 * c.pdLow - 618 * c.pdRange, 1000),
                           "1.618 Extension")>>)]

\* General bias: otherwise
NeutralVerdict(c, a) ==
    [a EXCEPT
        !.bias = "NEUTRAL",
        !.direction = "WAIT FOR CLEAR SIGNAL",
        !.strength = 50,
        !.reasoning = <<Note("Mixed signals - No clear bias")>> \o @]

\* Mutant: the general confluence rules are tested before the trend and
\* inside-bar scenarios.
determineForecastBiasConfluenceFirst(c, a) ==
    IF a.scenario.fakeBreakoutHigh THEN FakeBreakoutHighVerdict(c, a)
    ELSE IF a.scenario.fakeBreakoutLow THEN FakeBreakoutLowVerdict(c, a)
    ELSE IF a.confluence >= 3 THEN BullishVerdict(c, a)
    ELSE IF a.confluence <= -3 THEN BearishVerdict(c, a)
    ELSE IF a.scenario.uptrend /\ c.pdCandle.isBullish THEN UptrendVerdict(c, a)
    ELSE IF a.scenario.downtrend /\ c.pdCandle.isBearish THEN DowntrendVerdict(c, a)
    ELSE IF a.scenario.insideBar THEN InsideBarVerdict(c, a)
    ELSE NeutralVerdict(c, a)

\* Mutant: the fake breakout of the low is tested before that of the high.
determineForecastBiasLowFirst(c, a) ==
    IF a.scenario.fakeBreakoutLow THEN FakeBreakoutLowVerdict(c, a)
    ELSE IF a.scenario.fakeBreakoutHigh THEN FakeBreakoutHighVerdict(c, a)
    ELSE IF a.scenario.uptrend /\ c.pdCandle.isBullish THEN UptrendVerdict(c, a)
    ELSE IF a.scenario.downtrend /\ c.pdCandle.isBearish THEN DowntrendVerdict(c, a)
    ELSE IF a.scenario.insideBar THEN InsideBarVerdict(c, a)
    ELSE IF a.confluence >= 3 THEN BullishVerdict(c, a)
    ELSE IF a.confluence <= -3 THEN BearishVerdict(c, a)
    ELSE NeutralVerdict(c, a)

\* Mutant: the trend rules are tested before the fake breakouts.
determineForecastBiasTrendFirst(c, a) ==
    IF a.scenario.uptrend /\ c.pdCandle.isBullish THEN UptrendVerdict(c, a)
    ELSE IF a.scenario.downtrend /\ c.pdCandle.isBearish THEN DowntrendVerdict(c, a)
    ELSE IF a.scenario.fakeBreakoutHigh THEN FakeBreakoutHighVerdict(c, a)
    ELSE IF a.scenario.fakeBreakoutLow THEN FakeBreakoutLowVerdict(c, a)
    ELSE IF a.scenario.insideBar THEN InsideBarVerdict(c, a)
    ELSE IF a.confluence >= 3 THEN BullishVerdict(c, a)
    ELSE IF a.confluence <= -3 THEN BearishVerdict(c, a)
    ELSE NeutralVerdict(c, a)

\* The chain of tests, each returning at its first match.
determineForecastBias(c, a) ==
    IF a.scenario.fakeBreakoutHigh THEN FakeBreakoutHighVerdict(c, a)
    ELSE IF a.scenario.fakeBreakoutLow THEN FakeBreakoutLowVerdict(c, a)
    ELSE IF a.scenario.uptrend /\ c.pdCandle.isBullish THEN UptrendVerdict(c, a)
    ELSE IF a.scenario.downtrend /\ c.pdCandle.isBearish THEN DowntrendVerdict(c, a)
    ELSE IF a.scenario.insideBar THEN InsideBarVerdict(c, a)
    ELSE IF a.confluence >= 3 THEN BullishVerdict(c, a)
    ELSE IF a.confluence <= -3 THEN BearishVerdict(c, a)
    ELSE NeutralVerdict(c, a)

-----------------------------------------------------------------------------
(* Recommendation Formatter *)

\* bias.includes(word), over the labels the resolver assigns.
Includes(bias, word) ==
    CASE word = "BULLISH" ->
            bias \in {"BULLISH REVERSAL", "BULLISH CONTINUATION",
                      "BULLISH BREAKOUT", "BULLISH"}
      [] word = "BEARISH" ->
            bias \in {"BEARISH REVERSAL", "BEARISH CONTINUATION",
                      "BEARISH BREAKOUT", "BEARISH"}

\* `${setup.sweepLevel}`: the level, or undefined when the setup is {}.
SweepLevelOf(setup) ==
    IF setup.empty THEN [defined |-> FALSE]
    ELSE [defined |-> TRUE, level |-> setup.sweepLevel]

\* Mutant: each side's recommendation cites the other side's setup.
generateTradingScenariosSwapped(c, a) ==
    IF Includes(a.bias, "BULLISH")
    THEN [a EXCEPT !.recommendation =
             [kind |-> "BUY", sweep |-> SweepLevelOf(a.bearishSetup)]]
    ELSE IF Includes(a.bias, "BEARISH")
    THEN [a EXCEPT !.recommendation =
             [kind |-> "SELL", sweep |-> SweepLevelOf(a.bullishSetup)]]
    ELSE [a EXCEPT !.recommendation =
             [kind |-> "WAIT", above |-> c.pdHigh, below |-> c.pdLow]]

generateTradingScenarios(c, a) ==
    IF Includes(a.bias, "BULLISH")
    THEN [a EXCEPT !.recommendation =
             [kind |-> "BUY", sweep |-> SweepLevelOf(a.bullishSetup)]]
    ELSE IF Includes(a.bias, "BEARISH")
    THEN [a EXCEPT !.recommendation =
             [kind |-> "SELL", sweep |-> SweepLevelOf(a.bearishSetup)]]
    ELSE [a EXCEPT !.recommendation =
             [kind |-> "WAIT", above |-> c.pdHigh, below |-> c.pdLow]]

-----------------------------------------------------------------------------
(* calculateBias *)

calculateBias(c) ==
    LET a0 == NewAnalysis(c)
        a1 == analyzeCandlePatterns(c, a0)
        a2 == analyzePriceStructure(c, a1)
        a3 == analyzeLiquiditySweeps(c, a2)
        a4 == determineForecastBias(c, a3)
    IN  generateTradingScenarios(c, a4)

-----------------------------------------------------------------------------
(* Inputs *)

Bar(open, high, low, close) ==
    [open |-> open, high |-> high, low |-> low, close |-> close]

\* The object passed to the constructor: the eight fields of the form.
FormData(d2, d1) ==
    [dbpdOpen |-> d2.open, dbpdHigh |-> d2.high,
     dbpdLow |-> d2.low, dbpdClose |-> d2.close,
     pdOpen |-> d1.open, pdHigh |-> d1.high,
     pdLow |-> d1.low, pdClose |-> d1.close]

\* What the form's validation accepts of one bar.
ValidBar(b) ==
    /\ b.high > b.low
    /\ b.low <= b.open /\ b.open <= b.high
    /\ b.low <= b.close /\ b.close <= b.high

GridPrices == (BasePrice + 1) .. (BasePrice + MaxTicks)

\* Every valid bar on the grid.
GridBars ==
    {b \in [open : GridPrices, high : GridPrices,
            low : GridPrices, close : GridPrices] : ValidBar(b)}

\* Valid bars off the grid: the two bars of the documented scenario
\* (D-2 = O 1.10 H 1.12 L 1.09 C 1.115, D-1 = O 1.115 H 1.118 L 1.095
\* C 1.097) with every price times 1000, and wide bars whose body is under 10% of the
\* range without being zero.
ScenarioBars ==
    {Bar(1100, 1120, 1090, 1115),
     Bar(1115, 1118, 1095, 1097),
     Bar(1106, 1112, 1101, 1107),
     Bar(1107, 1112, 1101, 1106)}

\* Bars the form's validation refuses: high = low (0/0 and x/0 in the
\* classifier), high < low, open outside the range, close outside it.
InvalidBars ==
    {Bar(1102, 1102, 1102, 1102),
     Bar(1101, 1102, 1102, 1103),
     Bar(1102, 1101, 1103, 1102),
     Bar(1101, 1104, 1102, 1103),
     Bar(1103, 1104, 1102, 1105)}

\* Valid bars whose body is exactly 10% and exactly 70% of the range, where
\* the classifier's thresholds decide.
ThresholdBars ==
    {Bar(1105, 1111, 1101, 1106),
     Bar(1101, 1111, 1101, 1108),
     Bar(1108, 1111, 1101, 1101)}

\* Valid bars that give the continuation rules their weakest confluence: a
\* flat D-2 under (or over) a D-1 with a long wick and a close in the far
\* quarter of its range.
ContinuationBars ==
    {Bar(1100, 1101, 1100, 1100),
     Bar(1100, 1102, 1100, 1100),
     Bar(1101, 1106, 1101, 1102),
     Bar(1107, 1107, 1106, 1107),
     Bar(1106, 1106, 1101, 1105)}

Bars ==
    GridBars \cup ScenarioBars \cup ThresholdBars \cup ContinuationBars
        \cup InvalidBars

Inputs == {FormData(d2, d1) : d2 \in Bars, d1 \in Bars}

-----------------------------------------------------------------------------
(* The page before any event: nothing submitted, nothing stored *)

NoFormData == [submitted |-> FALSE]
NotValidated == [done |-> FALSE]
EmptyPanel == [shown |-> FALSE]
\* getChecklistState() of an empty storage: {}
NoChecklistState == [stored |-> FALSE, checked |-> {}]
NoCall == [method |-> "none", id |-> 0, full |-> FALSE]

\* The page as loaded with an empty localStorage: init() renders the empty
\* history and leaves the checklist of the markup.
PageLoaded ==
    /\ formData = NoFormData
    /\ validation = NotValidated
    /\ panel = EmptyPanel
    /\ timers = << >>
    /\ checklist = "DEFAULT"
    /\ history = << >>
    /\ historyView = << >>
    /\ now = 0
    /\ checklistState = NoChecklistState
    /\ called = NoCall

-----------------------------------------------------------------------------
(* The state machine: one BiasCalculator instance and the calls made on it *)

Init ==
    /\ calc \in {BiasCalculator(data) : data \in Inputs}
    /\ results = << >>
    /\ PageLoaded

\* calculator.calculateBias(): reads the instance, returns a new analysis.
CalculateBias ==
    /\ Len(results) < MaxCalls
    /\ results' = Append(results, calculateBias(calc))
    /\ UNCHANGED <<calc, appVars>>

Next == CalculateBias

Spec == Init /\ [][Next]_vars

-----------------------------------------------------------------------------
(* A second state machine: as the form handler does on every submission,  *)
(* a new instance is constructed for each analysis; the results of all    *)
(* the calls are logged.  JavaScript runs each call to completion, so     *)
(* calls on different instances interleave only as whole calls.           *)

\* The bars submitted here, a few to keep the log small: the two scenario
\* bars and a doji.
LogBars ==
    {Bar(1100, 1120, 1090, 1115),
     Bar(1115, 1118, 1095, 1097),
     Bar(1106, 1112, 1101, 1107)}

LogInputs == {FormData(d2, d1) : d2 \in LogBars, d1 \in LogBars}

InitCalls ==
    /\ calc \in {BiasCalculator(data) : data \in LogInputs}
    /\ results = << >>
    /\ PageLoaded

\* new BiasCalculator(formData): the instance in use is replaced.
Construct ==
    /\ Len(results) < MaxLog
    /\ \E data \in LogInputs : calc' = BiasCalculator(data)
    /\ UNCHANGED <<results, appVars>>

\* calculator.calculateBias() on the instance in use.
CalculateBiasLogged ==
    /\ Len(results) < MaxLog
    /\ results' = Append(results, calculateBias(calc))
    /\ UNCHANGED <<calc, appVars>>

NextCalls == Construct \/ CalculateBiasLogged

SpecCalls == InitCalls /\ [][NextCalls]_vars

-----------------------------------------------------------------------------
(* The form: field texts, parseFloat and validateInputs *)

\* The text of a form field: a decimal numeral, or nothing typed.
Numeral(p) == [text |-> "numeral", digits |-> p]
Blank == [text |-> "blank", digits |-> 0]

\* parseFloat(text): the number a numeral denotes, NaN for the empty text.
parseFloat(field) ==
    IF field.text = "numeral"
    THEN [isNaN |-> FALSE, number |-> field.digits]
    ELSE [isNaN |-> TRUE, number |-> 0]

\* The outcome of a validation: the value returned and the alerts raised.
Accepted == [done |-> TRUE, ok |-> TRUE, alerts |-> << >>]
Rejected(day, problem, shown) ==
    [done |-> TRUE, ok |-> FALSE,
     alerts |-> <<[day |-> day, problem |-> problem, shown |-> shown]>>]

\* Mutant: a bar whose high equals its low passes the range test.
validateBarEqualPasses(day, open, high, low, close) ==
    LET H == parseFloat(high)
        L == parseFloat(low)
        O == parseFloat(open)
        C == parseFloat(close)
    IN  IF H.isNaN \/ L.isNaN \/ O.isNaN \/ C.isNaN
        THEN Rejected(day, "All fields must contain valid numbers", << >>)
        ELSE IF H.number < L.number
        THEN Rejected(day, "High must be greater than Low", <<high, low>>)
        ELSE IF O.number < L.number \/ O.number > H.number
        THEN Rejected(day, "Open must be within High and Low range",
                      <<open, low, high>>)
        ELSE IF C.number < L.number \/ C.number > H.number
        THEN Rejected(day, "Close must be within High and Low range",
                      <<close, low, high>>)
        ELSE Accepted

\* The checks validateInputs makes on the four fields of one bar, in its
\* order; the comparisons are reached with four numbers only.
validateBar(day, open, high, low, close) ==
    LET H == parseFloat(high)
        L == parseFloat(low)
        O == parseFloat(open)
        C == parseFloat(close)
    IN  IF H.isNaN \/ L.isNaN \/ O.isNaN \/ C.isNaN
        THEN Rejected(day, "All fields must contain valid numbers", << >>)
        ELSE IF H.number <= L.number
        THEN Rejected(day, "High must be greater than Low", <<high, low>>)
        ELSE IF O.number < L.number \/ O.number > H.number
        THEN Rejected(day, "Open must be within High and Low range",
                      <<open, low, high>>)
        ELSE IF C.number < L.number \/ C.number > H.number
        THEN Rejected(day, "Close must be within High and Low range",
                      <<close, low, high>>)
        ELSE Accepted

\* validateInputs(data): D-2 first, D-1 only when D-2 passed.
validateInputs(data) ==
    LET d2 == validateBar("Day Before Previous", data.dbpdOpen, data.dbpdHigh,
                          data.dbpdLow, data.dbpdClose)
    IN  IF ~d2.ok THEN d2
        ELSE validateBar("Previous Day", data.pdOpen, data.pdHigh,
                         data.pdLow, data.pdClose)

\* The texts a field is given, and every form made of them.
FieldTexts ==
    {Blank} \cup {Numeral(p) : p \in (BasePrice + 1) .. (BasePrice + MaxFormTicks)}

Forms ==
    [dbpdOpen : FieldTexts, dbpdHigh : FieldTexts,
     dbpdLow : FieldTexts, dbpdClose : FieldTexts,
     pdOpen : FieldTexts, pdHigh : FieldTexts,
     pdLow : FieldTexts, pdClose : FieldTexts]

\* A third state machine: validateInputs applied to a filled form.
InitForm ==
    /\ calc = [constructed |-> FALSE]
    /\ results = << >>
    /\ formData \in Forms
    /\ validation = NotValidated
    /\ panel = EmptyPanel
    /\ timers = << >>
    /\ checklist = "DEFAULT"
    /\ history = << >>
    /\ historyView = << >>
    /\ now = 0
    /\ checklistState = NoChecklistState
    /\ called = NoCall

ValidateInputs ==
    /\ ~validation.done
    /\ validation' = validateInputs(formData)
    /\ UNCHANGED <<calc, results, formData, panel, timers, checklist,
                   history, historyView, now>>
    /\ UNCHANGED <<checklistState, called>>

NextForm == ValidateInputs

SpecForm == InitForm /\ [][NextForm]_vars

-----------------------------------------------------------------------------
(* The page: handleFormSubmit, the checklist timer and the history *)

\* StorageManager.maxHistoryItems
maxHistoryItems == 20

\* The form whose fields hold the numerals of two bars.
TextForm(d2, d1) ==
    [dbpdOpen |-> Numeral(d2.open), dbpdHigh |-> Numeral(d2.high),
     dbpdLow |-> Numeral(d2.low), dbpdClose |-> Numeral(d2.close),
     pdOpen |-> Numeral(d1.open), pdHigh |-> Numeral(d1.high),
     pdLow |-> Numeral(d1.low), pdClose |-> Numeral(d1.close)]

\* The forms submitted to the page: the documented scenario (bearish), a
\* pair the general rule resolves BULLISH, an inside bar closed at its open
\* (NEUTRAL - WAIT), a form with an empty field and one whose D-2 has
\* high = low.
SubmittedForms ==
    {TextForm(Bar(1100, 1120, 1090, 1115), Bar(1115, 1118, 1095, 1097)),
     TextForm(Bar(1101, 1102, 1101, 1101), Bar(1101, 1103, 1101, 1103)),
     TextForm(Bar(1102, 1104, 1101, 1103), Bar(1102, 1103, 1101, 1102)),
     [TextForm(Bar(1100, 1120, 1090, 1115), Bar(1115, 1118, 1095, 1097))
         EXCEPT !.pdClose = Blank],
     TextForm(Bar(1102, 1102, 1102, 1102), Bar(1115, 1118, 1095, 1097))}

\* The numbers the constructor reads from the form: parseFloat of each field.
ParsedData(data) ==
    [dbpdOpen |-> parseFloat(data.dbpdOpen).number,
     dbpdHigh |-> parseFloat(data.dbpdHigh).number,
     dbpdLow |-> parseFloat(data.dbpdLow).number,
     dbpdClose |-> parseFloat(data.dbpdClose).number,
     pdOpen |-> parseFloat(data.pdOpen).number,
     pdHigh |-> parseFloat(data.pdHigh).number,
     pdLow |-> parseFloat(data.pdLow).number,
     pdClose |-> parseFloat(data.pdClose).number]

\* Mutant: the oldest entry is dropped as soon as maxHistoryItems is reached.
saveAnalysisDropsEarly(stored, data, analysis, t) ==
    LET entry == [id |-> t, timestamp |-> t, data |-> data,
                  analysis |-> analysis]
        unshifted == <<entry>> \o stored
    IN  IF Len(unshifted) >= maxHistoryItems
        THEN SubSeq(unshifted, 1, Len(unshifted) - 1)
        ELSE unshifted

\* storage.saveAnalysis(data, analysis) at time t: the history it stores.
saveAnalysis(stored, data, analysis, t) ==
    LET entry == [id |-> t, timestamp |-> t, data |-> data,
                  analysis |-> analysis]
        unshifted == <<entry>> \o stored
    IN  IF Len(unshifted) > maxHistoryItems
        THEN SubSeq(unshifted, 1, Len(unshifted) - 1)
        ELSE unshifted

\* Mutant: the entries with the given id are the ones kept.
deleteEntryKeepsMatching(stored, id) ==
    SelectSeq(stored, LAMBDA entry : entry.id = id)

\* storage.deleteEntry(id): the history it stores.
deleteEntry(stored, id) == SelectSeq(stored, LAMBDA entry : entry.id # id)

\* renderHistory(): one row per stored entry, with its delete button.
renderHistory(stored) ==
    [i \in 1 .. Len(stored) |->
        [id |-> stored[i].id, timestamp |-> stored[i].timestamp,
         bias |-> stored[i].analysis.bias,
         direction |-> stored[i].analysis.direction,
         strength |-> stored[i].analysis.strength]]

\* displayResults(analysis, data): the panel is rendered once more.
displayResults(shownBefore, analysis, data) ==
    [shown |-> TRUE,
     renders |-> (IF shownBefore.shown THEN shownBefore.renders ELSE 0) + 1,
     analysis |-> analysis, data |-> data]

\* The checklist updateChecklistByBias(bias) puts in the card.
ChecklistFor(bias) ==
    IF Includes(bias, "BULLISH") THEN "BUY"
    ELSE IF Includes(bias, "BEARISH") THEN "SELL"
    ELSE "NEUTRAL"

InitApp ==
    /\ calc = [constructed |-> FALSE]
    /\ results = << >>
    /\ PageLoaded

\* Mutant: the checklist update is scheduled before the form is validated.
HandleFormSubmitScheduleFirst ==
    /\ Len(results) < MaxSubmits
    /\ \E data \in SubmittedForms :
          LET verdict == validateInputs(data)
          IN  /\ formData' = data
              /\ validation' = verdict
              /\ IF ~verdict.ok
                 THEN /\ timers' = Append(timers, "NEUTRAL")
                      /\ UNCHANGED <<calc, results, panel, checklist,
                                     history, historyView, now>>
                 ELSE LET calculator == BiasCalculator(ParsedData(data))
                          analysis == calculateBias(calculator)
                          stored == saveAnalysis(history, data, analysis, now)
                      IN  /\ calc' = calculator
                          /\ results' = Append(results, analysis)
                          /\ panel' = displayResults(panel, analysis, data)
                          /\ timers' = Append(timers, analysis.bias)
                          /\ history' = stored
                          /\ historyView' = renderHistory(stored)
                          /\ UNCHANGED <<checklist, now>>
    /\ UNCHANGED <<checklistState, called>>

\* The submit event of the form: the whole handler.  The instance it
\* constructs and the analysis it gets are kept in calc and results.
HandleFormSubmit ==
    /\ Len(results) < MaxSubmits
    /\ \E data \in SubmittedForms :
          LET verdict == validateInputs(data)
          IN  /\ formData' = data
              /\ validation' = verdict
              /\ IF ~verdict.ok
                 THEN UNCHANGED <<calc, results, panel, timers, checklist,
                                  history, historyView, now>>
                 ELSE LET calculator == BiasCalculator(ParsedData(data))
                          analysis == calculateBias(calculator)
                          stored == saveAnalysis(history, data, analysis, now)
                      IN  /\ calc' = calculator
                          /\ results' = Append(results, analysis)
                          /\ panel' = displayResults(panel, analysis, data)
                          /\ timers' = Append(timers, analysis.bias)
                          /\ history' = stored
                          /\ historyView' = renderHistory(stored)
                          /\ UNCHANGED <<checklist, now>>
    /\ UNCHANGED <<checklistState, called>>

\* The oldest pending timer fires: updateChecklistByBias(analysis.bias).
UpdateChecklistByBias ==
    /\ timers # << >>
    /\ checklist' = ChecklistFor(Head(timers))
    /\ timers' = Tail(timers)
    /\ UNCHANGED <<calc, results, formData, validation, panel, history,
                   historyView, now>>
    /\ UNCHANGED <<checklistState, called>>

\* A click on the delete button of a rendered row, confirmed or not.
DeleteHistoryEntry ==
    /\ UNCHANGED <<checklistState, called>>
    /\ \E i \in 1 .. Len(historyView), confirmed \in BOOLEAN :
           /\ history' = IF confirmed
                         THEN deleteEntry(history, historyView[i].id)
                         ELSE history
           /\ historyView' = IF confirmed THEN renderHistory(history')
                             ELSE historyView
           /\ UNCHANGED <<calc, results, formData, validation, panel, timers,
                          checklist, now>>

\* A click on the clear button, confirmed or not.
HandleClearHistory ==
    /\ UNCHANGED <<checklistState, called>>
    /\ \E confirmed \in BOOLEAN :
           /\ history' = IF confirmed THEN << >> ELSE history
           /\ historyView' = IF confirmed THEN renderHistory(history')
                             ELSE historyView
           /\ UNCHANGED <<calc, results, formData, validation, panel, timers,
                          checklist, now>>

\* Time passes.
Tick ==
    /\ now < MaxClock
    /\ now' = now + 1
    /\ UNCHANGED <<calc, results, formData, validation, panel, timers,
                   checklist, history, historyView>>
    /\ UNCHANGED <<checklistState, called>>

NextApp ==
    \/ HandleFormSubmit
    \/ UpdateChecklistByBias
    \/ DeleteHistoryEntry
    \/ HandleClearHistory
    \/ Tick

SpecApp == InitApp /\ [][NextApp]_vars

-----------------------------------------------------------------------------
(* The StorageManager alone: any sequence of calls on it *)

\* The checkboxes of the checklist whose marks are stored.
CheckboxIds == {"check1", "check2"}

\* storage.saveChecklistState(state): what localStorage holds after it.
saveChecklistState(checked) == [stored |-> TRUE, checked |-> checked]

\* The form data and the analysis saved here: the documented scenario.
StoredData == TextForm(Bar(1100, 1120, 1090, 1115), Bar(1115, 1118, 1095, 1097))
StoredAnalysis == calculateBias(BiasCalculator(ParsedData(StoredData)))

\* The ids asked to be deleted: every value the clock takes.
EntryIds == 0 .. MaxClock

InitStorage ==
    /\ calc = [constructed |-> FALSE]
    /\ results = << >>
    /\ PageLoaded

\* storage.saveAnalysis(data, analysis)
SaveAnalysis ==
    /\ history' = saveAnalysis(history, StoredData, StoredAnalysis, now)
    /\ called' = [method |-> "saveAnalysis", id |-> now,
                  full |-> Len(history) >= maxHistoryItems]
    /\ UNCHANGED <<calc, results, formData, validation, panel, timers,
                   checklist, historyView, now, checklistState>>

\* storage.deleteEntry(id)
DeleteEntry(id) ==
    /\ history' = deleteEntry(history, id)
    /\ called' = [method |-> "deleteEntry", id |-> id, full |-> FALSE]
    /\ UNCHANGED <<calc, results, formData, validation, panel, timers,
                   checklist, historyView, now, checklistState>>

\* storage.clearHistory(): the key is removed, getHistory() gives [].
ClearHistory ==
    /\ history' = << >>
    /\ called' = [method |-> "clearHistory", id |-> 0, full |-> FALSE]
    /\ UNCHANGED <<calc, results, formData, validation, panel, timers,
                   checklist, historyView, now, checklistState>>

\* storage.saveChecklistState(state), with any marks.
SaveChecklistState ==
    /\ \E checked \in SUBSET CheckboxIds :
          checklistState' = saveChecklistState(checked)
    /\ called' = [method |-> "saveChecklistState", id |-> 0, full |-> FALSE]
    /\ UNCHANGED <<calc, results, formData, validation, panel, timers,
                   checklist, history, historyView, now>>

NextStorage ==
    \/ SaveAnalysis
    \/ \E id \in EntryIds : DeleteEntry(id)
    \/ ClearHistory
    \/ SaveChecklistState
    \/ Tick

SpecStorage == InitStorage /\ [][NextStorage]_vars

-----------------------------------------------------------------------------
(* Vocabulary of the properties *)

\* Both bars of the instance have high > low and open, close in [low, high].
ValidPair(c) ==
    /\ ValidBar(Bar(c.dbpdOpen, c.dbpdHigh, c.dbpdLow, c.dbpdClose))
    /\ ValidBar(Bar(c.pdOpen, c.pdHigh, c.pdLow, c.pdClose))

Calls == 1 .. Len(results)

\* The labels of the resolver table.
BiasLabels ==
    {"BEARISH REVERSAL", "BULLISH REVERSAL", "BULLISH CONTINUATION",
     "BEARISH CONTINUATION", "BULLISH BREAKOUT", "BEARISH BREAKOUT",
     "NEUTRAL - WAIT", "BULLISH", "BEARISH", "NEUTRAL"}

\* The first rule of the priority table whose condition holds of a result:
\* the flags and the confluence are those the analyzer left.
FirstRule(r) ==
    IF r.scenario.fakeBreakoutHigh THEN 1
    ELSE IF r.scenario.fakeBreakoutLow THEN 2
    ELSE IF r.scenario.uptrend /\ r.candleAnalysis.pd.isBullish THEN 3
    ELSE IF r.scenario.downtrend /\ r.candleAnalysis.pd.isBearish THEN 4
    ELSE IF r.scenario.insideBar THEN 5
    ELSE IF r.confluence >= 3 THEN 6
    ELSE IF r.confluence <= -3 THEN 7
    ELSE 8

\* The bias the table gives for a rule.
TableBias(n, r) ==
    CASE n = 1 -> "BEARISH REVERSAL"
      [] n = 2 -> "BULLISH REVERSAL"
      [] n = 3 -> "BULLISH CONTINUATION"
      [] n = 4 -> "BEARISH CONTINUATION"
      [] n = 5 -> IF r.candleAnalysis.pd.isBullish THEN "BULLISH BREAKOUT"
                  ELSE IF r.candleAnalysis.pd.isBearish THEN "BEARISH BREAKOUT"
                  ELSE "NEUTRAL - WAIT"
      [] n = 6 -> "BULLISH"
      [] n = 7 -> "BEARISH"
      [] n = 8 -> "NEUTRAL"

\* The direction that goes with each bias.
TableDirection(bias) ==
    CASE bias = "BEARISH REVERSAL" -> "LOOK FOR SELL"
      [] bias = "BULLISH REVERSAL" -> "LOOK FOR BUY"
      [] bias = "BULLISH CONTINUATION" -> "BUY PULLBACKS"
      [] bias = "BEARISH CONTINUATION" -> "SELL RALLIES"
      [] bias = "BULLISH BREAKOUT" -> "BUY ABOVE PD HIGH"
      [] bias = "BEARISH BREAKOUT" -> "SELL BELOW PD LOW"
      [] bias = "NEUTRAL - WAIT" -> "TRADE BREAKOUT"
      [] bias = "BULLISH" -> "LOOK FOR BUY SETUPS"
      [] bias = "BEARISH" -> "LOOK FOR SELL SETUPS"
      [] bias = "NEUTRAL" -> "WAIT FOR CLEAR SIGNAL"

\* The strength the table gives for a rule.
TableStrength(n, r) ==
    CASE n \in {1, 2} -> 85
      [] n = 3 -> Min(75 + 3 * r.confluence, 95)
      [] n = 4 -> Min(75 + 3 * Abs(r.confluence), 95)
      [] n = 5 -> IF r.candleAnalysis.pd.isBullish \/ r.candleAnalysis.pd.isBearish
                  THEN 70 ELSE 50
      [] n = 6 -> Min(60 + 5 * r.confluence, 95)
      [] n = 7 -> Min(60 + 5 * Abs(r.confluence), 95)
      [] n = 8 -> 50

\* The setups the table has a rule emit.
TableBullishSetup(n) == n \in {2, 3, 5, 6}
TableBearishSetup(n) == n \in {1, 4, 5, 7}

-----------------------------------------------------------------------------
(* Properties *)

\* C1: for every valid bar pair, calculateBias returns one bias label of
\* the resolver table and a strength between 0 and 100.
C1_LabelAndStrength ==
    ValidPair(calc) =>
        \A i \in Calls :
            /\ results[i].bias \in BiasLabels
            /\ 0 <= results[i].strength
            /\ results[i].strength <= 100

\* C1 witness: a valid pair has been resolved by the general confluence
\* rule, with a strength computed from the confluence.
C1_Witness ==
    /\ ValidPair(calc)
    /\ \E i \in Calls : results[i].bias = "BULLISH" /\ results[i].strength > 60

\* C2: for every valid bar pair the verdict (bias, direction, strength,
\* setups emitted) is that of the first rule of the table whose condition
\* holds; a pair that is an uptrend with a bullish D-1 and has
\* confluence >= 3, and matches no earlier rule, is BULLISH CONTINUATION.
C2_FirstMatch ==
    ValidPair(calc) =>
        \A i \in Calls :
            LET r == results[i]
                n == FirstRule(r)
            IN  /\ r.bias = TableBias(n, r)
                /\ r.direction = TableDirection(r.bias)
                /\ r.strength = TableStrength(n, r)
                /\ ~r.bullishSetup.empty <=> TableBullishSetup(n)
                /\ ~r.bearishSetup.empty <=> TableBearishSetup(n)
                /\ (/\ r.scenario.uptrend /\ r.candleAnalysis.pd.isBullish
                    /\ r.confluence >= 3
                    /\ ~r.scenario.fakeBreakoutHigh
                    /\ ~r.scenario.fakeBreakoutLow)
                   => r.bias = "BULLISH CONTINUATION"

\* C2 witness: a valid pair satisfying both rule 3 and rule 6 and no
\* earlier rule has been resolved.
C2_Witness ==
    /\ ValidPair(calc)
    /\ \E i \in Calls :
          /\ results[i].scenario.uptrend
          /\ results[i].candleAnalysis.pd.isBullish
          /\ results[i].confluence >= 3
          /\ ~results[i].scenario.fakeBreakoutHigh
          /\ ~results[i].scenario.fakeBreakoutLow

\* C3: whenever D-1's high is above D-2's high and D-1's close is not, the
\* flag fakeBreakoutHigh is set and the verdict is BEARISH REVERSAL with
\* strength 85 and only the bearish setup, whatever the confluence and the
\* other flags, fakeBreakoutLow included; when fakeBreakoutLow is set and
\* fakeBreakoutHigh is not, the verdict is BULLISH REVERSAL with strength 85
\* and only the bullish setup.
C3_FakeBreakoutFirst ==
    \A i \in Calls :
        LET r == results[i]
        IN  /\ r.scenario.fakeBreakoutHigh
                <=> (calc.pdHigh > calc.dbpdHigh /\ calc.pdClose <= calc.dbpdHigh)
            /\ r.scenario.fakeBreakoutHigh =>
                  /\ r.bias = "BEARISH REVERSAL"
                  /\ r.strength = 85
                  /\ ~r.bearishSetup.empty
                  /\ r.bullishSetup.empty
            /\ (r.scenario.fakeBreakoutLow /\ ~r.scenario.fakeBreakoutHigh) =>
                  /\ r.bias = "BULLISH REVERSAL"
                  /\ r.strength = 85
                  /\ ~r.bullishSetup.empty
                  /\ r.bearishSetup.empty

\* C3 witness: a result with both fake-breakout flags set and a confluence
\* that would otherwise give a bullish verdict.
C3_Witness ==
    \E i \in Calls :
        /\ results[i].scenario.fakeBreakoutHigh
        /\ results[i].scenario.fakeBreakoutLow
        /\ results[i].confluence >= 3

\* C4: over valid bar pairs, both setups are non-empty only when the
\* inside-bar rule produced the verdict; rules 1, 4, 7 emit the bearish
\* setup only, rules 2, 3, 6 the bullish setup only, and rule 8 none.
C4_SetupSides ==
    ValidPair(calc) =>
        \A i \in Calls :
            LET r == results[i]
                n == FirstRule(r)
            IN  /\ (~r.bullishSetup.empty /\ ~r.bearishSetup.empty) => n = 5
                /\ n \in {1, 4, 7} => (r.bullishSetup.empty /\ ~r.bearishSetup.empty)
                /\ n \in {2, 3, 6} => (~r.bullishSetup.empty /\ r.bearishSetup.empty)
                /\ n = 8 => (r.bullishSetup.empty /\ r.bearishSetup.empty)

\* C4 witness: the inside-bar rule has emitted both setups for a valid pair.
C4_Witness ==
    /\ ValidPair(calc)
    /\ \E i \in Calls :
          /\ FirstRule(results[i]) = 5
          /\ ~results[i].bullishSetup.empty
          /\ ~results[i].bearishSetup.empty

\* C5: for every valid bar pair with D-1 inside D-2's range (D-1 high <=
\* D-2 high and D-1 low >= D-2 low), the bias is BULLISH BREAKOUT, BEARISH
\* BREAKOUT or NEUTRAL - WAIT and both setups are non-empty.
C5_InsideBar ==
    (/\ ValidPair(calc)
     /\ calc.pdHigh <= calc.dbpdHigh
     /\ calc.pdLow >= calc.dbpdLow) =>
        \A i \in Calls :
            /\ results[i].bias \in
                  {"BULLISH BREAKOUT", "BEARISH BREAKOUT", "NEUTRAL - WAIT"}
            /\ ~results[i].bullishSetup.empty
            /\ ~results[i].bearishSetup.empty

\* C5 witness: an inside bar sharing D-2's high, with a confluence that
\* would otherwise give a bullish verdict, has been resolved.
C5_Witness ==
    /\ ValidPair(calc)
    /\ calc.pdHigh = calc.dbpdHigh
    /\ calc.pdLow >= calc.dbpdLow
    /\ \E i \in Calls : results[i].confluence >= 3

\* The documented scenario, every price times 1000.
IsScenario(c) ==
    /\ c.dbpdOpen = 1100 /\ c.dbpdHigh = 1120
    /\ c.dbpdLow = 1090 /\ c.dbpdClose = 1115
    /\ c.pdOpen = 1115 /\ c.pdHigh = 1118
    /\ c.pdLow = 1095 /\ c.pdClose = 1097

\* C6 as stated: for D-2 = {O 1.10, H 1.12, L 1.09, C 1.115} and D-1 =
\* {O 1.115, H 1.118, L 1.095, C 1.097} the result is BEARISH REVERSAL with
\* strength 85 and bearishSetup.sweepLevel = 1.118.
C6_AsStated ==
    IsScenario(calc) =>
        \A i \in Calls :
            /\ results[i].bias = "BEARISH REVERSAL"
            /\ results[i].strength = 85
            /\ ~results[i].bearishSetup.empty
            /\ results[i].bearishSetup.sweepLevel = 1118

\* C6 amended: for that input D-1's high 1.118 is not above D-2's high
\* 1.12, so D-1 is an inside bar with a bearish close: the result is
\* BEARISH BREAKOUT with strength 70 and bearishSetup.sweepLevel = 1.095
\* (bullishSetup.sweepLevel = 1.118).
C6_ScenarioResult ==
    IsScenario(calc) =>
        \A i \in Calls :
            /\ ~results[i].scenario.fakeBreakoutHigh
            /\ results[i].scenario.insideBar
            /\ results[i].bias = "BEARISH BREAKOUT"
            /\ results[i].strength = 70
            /\ ~results[i].bearishSetup.empty
            /\ results[i].bearishSetup.sweepLevel = 1095
            /\ ~results[i].bullishSetup.empty
            /\ results[i].bullishSetup.sweepLevel = 1118

\* C6 witness: calculateBias has returned for the scenario's input.
C6_Witness == IsScenario(calc) /\ Len(results) > 0

\* Two STRONG BULLISH bars, D-1's high and low both above D-2's.
StrongBullishUptrend(c) ==
    /\ ValidPair(c)
    /\ c.dbpdCandle.type = "STRONG BULLISH"
    /\ c.pdCandle.type = "STRONG BULLISH"
    /\ c.pdHigh > c.dbpdHigh
    /\ c.pdLow > c.dbpdLow

\* C7 as stated: for two STRONG BULLISH bars with D-1's high and low both
\* above D-2's, the bias is BULLISH CONTINUATION and 75 <= strength <= 95.
C7_AsStated ==
    StrongBullishUptrend(calc) =>
        \A i \in Calls :
            /\ results[i].bias = "BULLISH CONTINUATION"
            /\ 75 <= results[i].strength
            /\ results[i].strength <= 95

\* C7 amended: for two STRONG BULLISH bars with D-1's high and low both
\* above D-2's, 75 <= strength <= 95, and the bias is BULLISH CONTINUATION
\* when D-1 closed above D-2's high; when it did not, the fake breakout
\* comes first and the bias is BEARISH REVERSAL.
C7_StrongUptrend ==
    StrongBullishUptrend(calc) =>
        \A i \in Calls :
            /\ 75 <= results[i].strength
            /\ results[i].strength <= 95
            /\ results[i].bias =
                  IF calc.pdClose > calc.dbpdHigh THEN "BULLISH CONTINUATION"
                  ELSE "BEARISH REVERSAL"

\* C7 witness: such a pair with D-1 closed above D-2's high has been
\* resolved with a confluence that reaches the cap of 95.
C7_Witness ==
    /\ StrongBullishUptrend(calc)
    /\ calc.pdClose > calc.dbpdHigh
    /\ \E i \in Calls : results[i].confluence >= 7

\* C8 as stated: for a pair that is not valid, the engine fails and
\* produces no result.
C8_AsStated == ~ValidPair(calc) => results = << >>

CandleShapes ==
    {"STRONG BULLISH", "BULLISH", "WEAK BULLISH", "DOJI",
     "STRONG BEARISH", "BEARISH", "WEAK BEARISH"}

\* C10: for every valid bar pair, the type of both candles in the returned
\* candleAnalysis is one of the seven shapes, never NEUTRAL.
C10_NeverNeutral ==
    ValidPair(calc) =>
        \A i \in Calls :
            /\ results[i].candleAnalysis.dbpd.type \in CandleShapes
            /\ results[i].candleAnalysis.pd.type \in CandleShapes

\* C10 witness: a result for a valid pair whose D-1 has close = open.
C10_Witness ==
    /\ ValidPair(calc)
    /\ calc.pdClose = calc.pdOpen
    /\ Len(results) > 0

\* The two classified candles of a result.
CandlesOf(r) == {r.candleAnalysis.dbpd, r.candleAnalysis.pd}

\* The candle's bar has range > 0 and a body under 10% of the range.
SmallBody(k) ==
    /\ k.high > k.low
    /\ 100 * Abs(k.close - k.open) < 10 * (k.high - k.low)

DirectionalShapes ==
    {"STRONG BULLISH", "BULLISH", "WEAK BULLISH",
     "STRONG BEARISH", "BEARISH", "WEAK BEARISH"}

\* C11: a bar with range > 0 whose body is under 10% of its range is
\* classified isDoji with shape DOJI and strength 0, whether its close is
\* above, below or equal to its open; it gets no directional shape.
C11_DojiOverrides ==
    \A i \in Calls : \A k \in CandlesOf(results[i]) :
        SmallBody(k) =>
            /\ k.isDoji
            /\ k.type = "DOJI"
            /\ k.strength = 0
            /\ k.type \notin DirectionalShapes

\* C11 witness: a result whose D-2 is a doji closed below its open and
\* whose D-1 is a doji closed above its open.
C11_Witness ==
    \E i \in Calls :
        LET r == results[i]
        IN  /\ SmallBody(r.candleAnalysis.dbpd)
            /\ r.candleAnalysis.dbpd.close < r.candleAnalysis.dbpd.open
            /\ SmallBody(r.candleAnalysis.pd)
            /\ r.candleAnalysis.pd.close > r.candleAnalysis.pd.open

\* C12: the strength is the table's formula of the final confluence c:
\* min(75 + 3c, 95) for BULLISH CONTINUATION, min(75 + 3|c|, 95) for BEARISH
\* CONTINUATION, min(60 + 5c, 95) for BULLISH, min(60 + 5|c|, 95) for
\* BEARISH, 70 for an inside bar whose D-1 closed above or below its open
\* and 50 when it closed at its open, and 50 for NEUTRAL.
C12_StrengthFormulas ==
    ValidPair(calc) =>
        \A i \in Calls :
            LET r == results[i]
                c == r.confluence
            IN  /\ r.bias = "BULLISH CONTINUATION"
                      => r.strength = Min(75 + 3 * c, 95)
                /\ r.bias = "BEARISH CONTINUATION"
                      => r.strength = Min(75 + 3 * Abs(c), 95)
                /\ r.bias = "BULLISH" => r.strength = Min(60 + 5 * c, 95)
                /\ r.bias = "BEARISH" => r.strength = Min(60 + 5 * Abs(c), 95)
                /\ r.bias \in {"BULLISH BREAKOUT", "BEARISH BREAKOUT",
                               "NEUTRAL - WAIT"}
                      => r.strength = IF calc.pdClose # calc.pdOpen
                                      THEN 70 ELSE 50
                /\ r.bias = "NEUTRAL - WAIT" <=>
                      (r.scenario.insideBar /\ FirstRule(r) = 5
                       /\ calc.pdClose = calc.pdOpen)
                /\ r.bias = "NEUTRAL" => r.strength = 50

\* C12 witness: a downtrend continuation whose negative confluence gives a
\* strength under the cap.
C12_Witness ==
    /\ ValidPair(calc)
    /\ \E i \in Calls :
          /\ results[i].bias = "BEARISH CONTINUATION"
          /\ results[i].confluence < 0
          /\ results[i].strength = 75 + 3 * Abs(results[i].confluence)
          /\ results[i].strength < 95

\* The labels that contain the word BULLISH, and those that contain BEARISH.
BullishLabels ==
    {"BULLISH REVERSAL", "BULLISH CONTINUATION", "BULLISH BREAKOUT", "BULLISH"}

BearishLabels ==
    {"BEARISH REVERSAL", "BEARISH CONTINUATION", "BEARISH BREAKOUT", "BEARISH"}

\* C13: for every valid bar pair the recommendation cites
\* bullishSetup.sweepLevel when the bias contains BULLISH,
\* bearishSetup.sweepLevel when it contains BEARISH, and D-1 high and D-1 low
\* otherwise; the cited setup is not empty, so the level is defined.
C13_RecommendationCites ==
    ValidPair(calc) =>
        \A i \in Calls :
            LET r == results[i]
            IN  /\ r.bias \in BullishLabels =>
                      /\ r.recommendation.kind = "BUY"
                      /\ ~r.bullishSetup.empty
                      /\ r.recommendation.sweep.defined
                      /\ r.recommendation.sweep.level = r.bullishSetup.sweepLevel
                /\ r.bias \in BearishLabels =>
                      /\ r.recommendation.kind = "SELL"
                      /\ ~r.bearishSetup.empty
                      /\ r.recommendation.sweep.defined
                      /\ r.recommendation.sweep.level = r.bearishSetup.sweepLevel
                /\ r.bias \in {"NEUTRAL", "NEUTRAL - WAIT"} =>
                      /\ r.recommendation.kind = "WAIT"
                      /\ r.recommendation.above = calc.pdHigh
                      /\ r.recommendation.below = calc.pdLow

\* C13 witness: a valid pair resolved BEARISH by the general rule, whose
\* recommendation cites D-1's high from the bearish setup while the bullish
\* setup is empty.
C13_Witness ==
    /\ ValidPair(calc)
    /\ \E i \in Calls :
          /\ results[i].bias = "BEARISH"
          /\ results[i].bullishSetup.empty
          /\ results[i].recommendation.kind = "SELL"
          /\ results[i].recommendation.sweep.defined
          /\ results[i].recommendation.sweep.level = calc.pdHigh

\* A delta that applies when its condition holds.
Delta(cond, d) == IF cond THEN d ELSE 0

\* The sum of the deltas of the confluence table for the bars of c, apart
\* from the outside bar's.
SumOfDeltas(c) ==
    LET d2Bull == c.dbpdClose > c.dbpdOpen
        d2Bear == c.dbpdClose < c.dbpdOpen
        d1Bull == c.pdClose > c.pdOpen
        d1Bear == c.pdClose < c.pdOpen
    IN    Delta(d2Bull /\ d1Bull, 2)
        + Delta(d2Bear /\ d1Bear, -2)
        + Delta(d2Bear /\ d1Bull, 1)
        + Delta(d2Bull /\ d1Bear, -1)
        + Delta(c.pdCandle.hasUpperWickRejection, -1)
        + Delta(c.pdCandle.hasLowerWickRejection, 1)
        + Delta(c.pdHigh > c.dbpdHigh, 1)
        + Delta(c.pdHigh > c.dbpdHigh /\ c.pdClose > c.dbpdHigh, 1)
        + Delta(c.pdLow < c.dbpdLow, -1)
        + Delta(c.pdLow < c.dbpdLow /\ c.pdClose < c.dbpdLow, -1)
        + Delta(c.pdHigh > c.dbpdHigh /\ c.pdLow > c.dbpdLow, 2)
        + Delta(c.pdHigh < c.dbpdHigh /\ c.pdLow < c.dbpdLow, -2)
        + Delta(100 * (c.pdClose - c.pdLow) > 75 * (c.pdHigh - c.pdLow), 1)
        + Delta(100 * (c.pdClose - c.pdLow) < 25 * (c.pdHigh - c.pdLow), -1)

\* The outside bar's delta: +2 or -2, by the side D-1 closed on.
OutsideDeltas(c) ==
    IF ~(c.pdHigh > c.dbpdHigh /\ c.pdLow < c.dbpdLow) THEN {0}
    ELSE IF c.pdClose > c.pdOpen THEN {2}
    ELSE IF c.pdClose < c.pdOpen THEN {-2}
    ELSE {2, -2}

\* C14: for every valid bar pair the final confluence is the sum of all the
\* applicable deltas of the table, each applied whatever the others; a fake
\* high breakout keeps its +1 and a fake low breakout its -1.
C14_ConfluenceIsSum ==
    ValidPair(calc) =>
        \A i \in Calls :
            \E ob \in OutsideDeltas(calc) :
                results[i].confluence = SumOfDeltas(calc) + ob

\* C14 witness: a valid pair with a fake high breakout and several other
\* deltas has been analysed, and its confluence is not zero.
C14_Witness ==
    /\ ValidPair(calc)
    /\ \E i \in Calls :
          /\ results[i].scenario.fakeBreakoutHigh
          /\ ~results[i].scenario.outsideBar
          /\ results[i].scenario.uptrend
          /\ results[i].scenario.upperRejection
          /\ results[i].confluence = 3

\* The bucket of a bar that closed above its open, and of one that closed
\* below it, by the body's share of the range: shape and strength score.
BullishBucket(body, range) ==
    IF 100 * body > 70 * range THEN <<"STRONG BULLISH", 3>>
    ELSE IF 100 * body > 50 * range THEN <<"BULLISH", 2>>
    ELSE <<"WEAK BULLISH", 1>>

BearishBucket(body, range) ==
    IF 100 * body > 70 * range THEN <<"STRONG BEARISH", -3>>
    ELSE IF 100 * body > 50 * range THEN <<"BEARISH", -2>>
    ELSE <<"WEAK BEARISH", -1>>

\* C15: a bar with range > 0 whose body is at least 10% of the range is
\* bucketed with strict thresholds: above 70% STRONG (3), above 50% and up to
\* 70% plain (2), from 10% to 50% WEAK (1), BULLISH and positive when it
\* closed above its open, BEARISH and negative when below; every strength
\* score is in -3 .. 3.
C15_Buckets ==
    \A i \in Calls : \A k \in CandlesOf(results[i]) :
        LET body == Abs(k.close - k.open)
            range == k.high - k.low
        IN  /\ k.strength \in -3 .. 3
            /\ (range > 0 /\ 100 * body >= 10 * range) =>
                  /\ k.close # k.open
                  /\ k.close > k.open =>
                        <<k.type, k.strength>> = BullishBucket(body, range)
                  /\ k.close < k.open =>
                        <<k.type, k.strength>> = BearishBucket(body, range)

\* C15 witness: a result whose D-1 has a body of exactly 70% of its range
\* and is BULLISH with strength 2.
C15_Witness ==
    \E i \in Calls :
        LET k == results[i].candleAnalysis.pd
        IN  /\ k.high > k.low
            /\ k.close > k.open
            /\ 100 * (k.close - k.open) = 70 * (k.high - k.low)
            /\ k.type = "BULLISH"
            /\ k.strength = 2

\* The change the outside-bar check made to the confluence of a result:
\* what is left of the confluence after the other deltas.
OutsideBarChange(r) == r.confluence - SumOfDeltas(calc)

\* C16 (as stated; violated by an outside bar that closed at its open): when
\* D-1 is an outside bar, the outside-bar check changes the confluence by +2
\* exactly when D-1 closed above its open and by -2 exactly when it closed
\* below its open.
C16_AsStated ==
    ValidPair(calc) =>
        \A i \in Calls :
            (calc.pdHigh > calc.dbpdHigh /\ calc.pdLow < calc.dbpdLow) =>
                /\ OutsideBarChange(results[i]) = 2 <=> calc.pdClose > calc.pdOpen
                /\ OutsideBarChange(results[i]) = -2 <=> calc.pdClose < calc.pdOpen

\* C17: the structure flags of a result are a function of the two bars:
\* breakoutHigh iff D-1 high > D-2 high; fakeBreakoutHigh iff that and D-1
\* close <= D-2 high; breakoutLow iff D-1 low < D-2 low; fakeBreakoutLow iff
\* that and D-1 close >= D-2 low; insideBar iff D-1 high <= D-2 high and D-1
\* low >= D-2 low; outsideBar iff D-1 high > D-2 high and D-1 low < D-2 low;
\* uptrend iff D-1's high and low are both above D-2's; downtrend iff both
\* are below; and an inside bar adds nothing to the confluence.
C17_FlagsFromBars ==
    \A i \in Calls :
        LET s == results[i].scenario
            higher == calc.pdHigh > calc.dbpdHigh
            lower == calc.pdLow < calc.dbpdLow
        IN  /\ s.breakoutHigh <=> higher
            /\ s.fakeBreakoutHigh <=> (higher /\ calc.pdClose <= calc.dbpdHigh)
            /\ s.breakoutLow <=> lower
            /\ s.fakeBreakoutLow <=> (lower /\ calc.pdClose >= calc.dbpdLow)
            /\ s.insideBar <=>
                  (calc.pdHigh <= calc.dbpdHigh /\ calc.pdLow >= calc.dbpdLow)
            /\ s.outsideBar <=> (higher /\ lower)
            /\ s.uptrend <=> (higher /\ calc.pdLow > calc.dbpdLow)
            /\ s.downtrend <=> (calc.pdHigh < calc.dbpdHigh /\ lower)
            /\ (ValidPair(calc) /\ s.insideBar) =>
                  results[i].confluence = SumOfDeltas(calc)

\* C17 witness: a pair whose D-1 went under D-2's low and closed exactly at
\* it has been analysed: a downtrend with a fake low breakout.
C17_Witness ==
    \E i \in Calls :
        /\ ValidPair(calc)
        /\ calc.pdLow < calc.dbpdLow
        /\ calc.pdClose = calc.dbpdLow
        /\ results[i].scenario.breakoutLow
        /\ results[i].scenario.fakeBreakoutLow
        /\ results[i].scenario.downtrend
        /\ ~results[i].scenario.insideBar

\* The headline lines the resolver puts at the front of the reasoning list.
Headlines ==
    {"FORECAST: SELL THE HIGH", "FORECAST: BUY THE DIP",
     "FORECAST: BUY dips to PD low", "FORECAST: SELL rallies to PD high",
     "FORECAST: Inside bar", "Mixed signals - No clear bias"}

ClosePositionNotes ==
    {"PD closed in upper 25% of range", "PD closed in lower 25% of range",
     "PD closed in middle of range"}

\* C18 (as stated; violated by the results of the general confluence rules
\* BULLISH and BEARISH, which put no headline at the front): in every result
\* the first item of the reasoning list is the resolver's headline, and the
\* remaining items are the analyzer's in evaluation order: the two candle
\* lines first, the close-position note last.
C18_AsStated ==
    ValidPair(calc) =>
        \A i \in Calls :
            LET reasoning == results[i].reasoning
            IN  /\ Len(reasoning) >= 4
                /\ reasoning[1].msg \in Headlines
                /\ reasoning[2].msg = "D-2 Candle"
                /\ reasoning[3].msg = "D-1 Candle"
                /\ reasoning[Len(reasoning)].msg \in ClosePositionNotes
                /\ \A j \in 2 .. Len(reasoning) : reasoning[j].msg \notin Headlines

\* The number a field parses to, when its form passed the numeric test.
NumberOf(field) == field.digits

\* All four fields of a bar are numerals.
AllNumbers(open, high, low, close) ==
    \A f \in {open, high, low, close} : f.text = "numeral"

\* The first violation of a bar in the order non-numeric, high <= low, open,
\* close: 0 when there is none.
FirstViolation(open, high, low, close) ==
    IF ~AllNumbers(open, high, low, close) THEN 1
    ELSE IF NumberOf(high) <= NumberOf(low) THEN 2
    ELSE IF ~(NumberOf(low) <= NumberOf(open) /\ NumberOf(open) <= NumberOf(high))
    THEN 3
    ELSE IF ~(NumberOf(low) <= NumberOf(close) /\ NumberOf(close) <= NumberOf(high))
    THEN 4
    ELSE 0

ProblemOf(n) ==
    CASE n = 1 -> "All fields must contain valid numbers"
      [] n = 2 -> "High must be greater than Low"
      [] n = 3 -> "Open must be within High and Low range"
      [] n = 4 -> "Close must be within High and Low range"

\* A form passes the validation: no bar of it has a violation.
Passes(data) ==
    /\ FirstViolation(data.dbpdOpen, data.dbpdHigh, data.dbpdLow, data.dbpdClose) = 0
    /\ FirstViolation(data.pdOpen, data.pdHigh, data.pdLow, data.pdClose) = 0

\* The times the results panel has been rendered.
Renders(p) == IF p.shown THEN p.renders ELSE 0

\* C19: a submission whose form data validateInputs rejects stops before
\* any analysis: no BiasCalculator is constructed or run, the results panel
\* is not rendered again, no checklist update is scheduled and the stored
\* history is left as it was; a submission that passes displays the results
\* of its analysis and saves exactly one entry, at the front.
C19_RejectedSubmitStops ==
    [][HandleFormSubmit =>
          IF ~Passes(formData')
          THEN /\ ~validation'.ok
               /\ UNCHANGED <<calc, results, panel, timers, history,
                              historyView, checklist>>
          ELSE /\ validation'.ok
               /\ Len(results') = Len(results) + 1
               /\ Renders(panel') = Renders(panel) + 1
               /\ panel'.analysis = results'[Len(results')]
               /\ Len(history') = Len(history) + 1
               /\ history'[1].analysis = results'[Len(results')]
               /\ history'[1].data = formData'
               /\ SubSeq(history', 2, Len(history')) = history]_vars

\* C19 witness: after one accepted submission a form has been rejected,
\* and the page still shows and stores the one analysis.
C19_Witness ==
    /\ formData \in SubmittedForms
    /\ ~Passes(formData)
    /\ validation.done /\ ~validation.ok
    /\ Len(results) = 1
    /\ Renders(panel) = 1
    /\ Len(history) = 1
    /\ Len(timers) = 1

\* C20: validateInputs returns true exactly when in both bars all four
\* fields parse to numbers, high > low, and open and close are in
\* [low, high]; otherwise it returns false after one alert, which reports
\* the first violation: of D-2 before D-1, and in a bar the non-numeric
\* fields, then high <= low, then the open, then the close.
C20_ValidateInputs ==
    validation.done =>
        LET v2 == FirstViolation(formData.dbpdOpen, formData.dbpdHigh,
                                 formData.dbpdLow, formData.dbpdClose)
            v1 == FirstViolation(formData.pdOpen, formData.pdHigh,
                                 formData.pdLow, formData.pdClose)
        IN  /\ validation.ok <=> (v2 = 0 /\ v1 = 0)
            /\ validation.ok => validation.alerts = << >>
            /\ ~validation.ok =>
                  /\ Len(validation.alerts) = 1
                  /\ validation.alerts[1].day =
                        IF v2 # 0 THEN "Day Before Previous" ELSE "Previous Day"
                  /\ validation.alerts[1].problem =
                        ProblemOf(IF v2 # 0 THEN v2 ELSE v1)

\* C20 witness: a form whose D-2 has high = low and whose D-1 has a blank
\* field has been refused for the D-2 range.
C20_Witness ==
    /\ validation.done
    /\ ~validation.ok
    /\ formData.dbpdHigh = formData.dbpdLow
    /\ formData.dbpdHigh.text = "numeral"
    /\ formData.pdOpen = Blank
    /\ validation.alerts[1].day = "Day Before Previous"
    /\ validation.alerts[1].problem = "High must be greater than Low"

\* The number of the three direction flags a classified candle has set.
FlagsSet(k) ==
    Delta(k.isBullish, 1) + Delta(k.isBearish, 1) + Delta(k.isDoji, 1)

\* C21 (as stated; violated by a doji whose close is not its open): in every
\* candle classified from a bar with range > 0 exactly one of isBullish,
\* isBearish and isDoji is true, so a doji D-1 is never the bullish or
\* bearish D-1 of resolver rules 3, 4 and 5.
C21_AsStated ==
    ValidPair(calc) =>
        \A i \in Calls :
            /\ \A k \in CandlesOf(results[i]) : FlagsSet(k) = 1
            /\ results[i].candleAnalysis.pd.isDoji =>
                  results[i].bias \notin {"BULLISH CONTINUATION",
                                          "BEARISH CONTINUATION",
                                          "BULLISH BREAKOUT", "BEARISH BREAKOUT"}

\* C22: over all valid bar pairs BULLISH CONTINUATION is returned only with
\* confluence >= 2 and BEARISH CONTINUATION only with confluence <= -2, so
\* the strength of a continuation is never below 75.
C22_ContinuationSign ==
    ValidPair(calc) =>
        \A i \in Calls :
            LET r == results[i]
            IN  /\ r.bias = "BULLISH CONTINUATION" =>
                      r.confluence >= 2 /\ r.strength >= 75
                /\ r.bias = "BEARISH CONTINUATION" =>
                      r.confluence <= -2 /\ r.strength >= 75

\* C22 witness: an uptrend continuation with the weakest confluence, 2.
C22_Witness ==
    /\ ValidPair(calc)
    /\ \E i \in Calls :
          /\ results[i].bias = "BULLISH CONTINUATION"
          /\ results[i].confluence = 2
          /\ results[i].strength = 81

\* C23: for every valid bar pair the final confluence is between -8 and 8,
\* and the strength is between 50 and 95.
C23_ConfluenceBounded ==
    ValidPair(calc) =>
        \A i \in Calls :
            /\ -8 <= results[i].confluence /\ results[i].confluence <= 8
            /\ 50 <= results[i].strength /\ results[i].strength <= 95

\* C23 witness: a valid pair whose confluence is 8, its strength capped at 95.
C23_Witness ==
    /\ ValidPair(calc)
    /\ \E i \in Calls : results[i].confluence = 8 /\ results[i].strength = 95

\* The lower bound of C23 is reached too.
C23_LowerBoundReached ==
    /\ ValidPair(calc)
    /\ \E i \in Calls : results[i].confluence = -8 /\ results[i].strength = 95

\* The number of the four bar patterns a result has flagged.
PatternsSet(s) ==
    Delta(s.insideBar, 1) + Delta(s.outsideBar, 1)
        + Delta(s.uptrend, 1) + Delta(s.downtrend, 1)

\* C24: in every result at most one of insideBar, outsideBar, uptrend and
\* downtrend is set; insideBar is set iff neither breakoutHigh nor
\* breakoutLow is; outsideBar iff both are; uptrend implies breakoutHigh
\* without breakoutLow, downtrend breakoutLow without breakoutHigh; and a
\* fake-breakout flag is never set without its breakout flag.
C24_FlagRelations ==
    \A i \in Calls :
        LET s == results[i].scenario
        IN  /\ PatternsSet(s) <= 1
            /\ s.insideBar <=> (~s.breakoutHigh /\ ~s.breakoutLow)
            /\ s.outsideBar <=> (s.breakoutHigh /\ s.breakoutLow)
            /\ s.uptrend => (s.breakoutHigh /\ ~s.breakoutLow)
            /\ s.downtrend => (s.breakoutLow /\ ~s.breakoutHigh)
            /\ s.fakeBreakoutHigh => s.breakoutHigh
            /\ s.fakeBreakoutLow => s.breakoutLow

\* C24 witness: a result with a broken high and none of the four patterns
\* (D-1's low equals D-2's), and the high's breakout a fake one.
C24_Witness ==
    \E i \in Calls :
        LET s == results[i].scenario
        IN  /\ ValidPair(calc)
            /\ PatternsSet(s) = 0
            /\ s.breakoutHigh /\ s.fakeBreakoutHigh
            /\ ~s.breakoutLow

\* The form data of the instance c reflected about the level K/2: each
\* price p becomes K - p, so highs and lows exchange their roles.
Mirror(c, K) ==
    [dbpdOpen |-> K - c.dbpdOpen, dbpdHigh |-> K - c.dbpdLow,
     dbpdLow |-> K - c.dbpdHigh, dbpdClose |-> K - c.dbpdClose,
     pdOpen |-> K - c.pdOpen, pdHigh |-> K - c.pdLow,
     pdLow |-> K - c.pdHigh, pdClose |-> K - c.pdClose]

\* The levels of reflection: the middle of the grid, and a level above
\* every bar.
MirrorLevels == {2 * BasePrice + MaxTicks + 1, 2 * BasePrice + 60}

\* The analysis of the reflected pair.
Mirrored(c, K) == calculateBias(BiasCalculator(Mirror(c, K)))

\* The label with BULLISH and BEARISH exchanged.
SwapLabel(bias) ==
    CASE bias = "BEARISH REVERSAL" -> "BULLISH REVERSAL"
      [] bias = "BULLISH REVERSAL" -> "BEARISH REVERSAL"
      [] bias = "BULLISH CONTINUATION" -> "BEARISH CONTINUATION"
      [] bias = "BEARISH CONTINUATION" -> "BULLISH CONTINUATION"
      [] bias = "BULLISH BREAKOUT" -> "BEARISH BREAKOUT"
      [] bias = "BEARISH BREAKOUT" -> "BULLISH BREAKOUT"
      [] bias = "BULLISH" -> "BEARISH"
      [] bias = "BEARISH" -> "BULLISH"
      [] OTHER -> bias

\* C25 (as stated; violated by an outside bar that closed inside D-2's
\* range, whose reflection is BEARISH REVERSAL like itself): reflecting both
\* bars of a valid pair negates the confluence and exchanges BULLISH and
\* BEARISH in the label, with the same strength.
C25_AsStated ==
    ValidPair(calc) =>
        \A i \in Calls : \A K \in MirrorLevels :
            LET r == results[i]
                m == Mirrored(calc, K)
            IN  /\ m.confluence = -r.confluence
                /\ m.bias = SwapLabel(r.bias)
                /\ m.strength = r.strength

\* C25 (amended): reflecting both bars of a valid pair exchanges BULLISH and
\* BEARISH in the label with the same strength, unless both fake-breakout
\* flags are set (an outside bar closed inside D-2's range), when the pair
\* and its reflection are both BEARISH REVERSAL with strength 85; and it
\* negates the confluence unless D-1 is an outside bar closed at its open.
C25_MirrorSymmetry ==
    ValidPair(calc) =>
        \A i \in Calls : \A K \in MirrorLevels :
            LET r == results[i]
                m == Mirrored(calc, K)
                bothFake == r.scenario.fakeBreakoutHigh /\ r.scenario.fakeBreakoutLow
            IN  /\ ~(r.scenario.outsideBar /\ calc.pdClose = calc.pdOpen)
                      => m.confluence = -r.confluence
                /\ ~bothFake => m.bias = SwapLabel(r.bias)
                /\ bothFake => m.bias = "BEARISH REVERSAL" /\ r.bias = "BEARISH REVERSAL"
                /\ m.strength = r.strength

\* C25 witness: a valid downtrend continuation has been analysed whose
\* reflection is an uptrend continuation of the opposite confluence.
C25_Witness ==
    /\ ValidPair(calc)
    /\ \E i \in Calls : \E K \in MirrorLevels :
          /\ results[i].bias = "BEARISH CONTINUATION"
          /\ results[i].confluence < 0
          /\ Mirrored(calc, K).bias = "BULLISH CONTINUATION"
          /\ Mirrored(calc, K).confluence = -results[i].confluence

\* The levels of a target list never go down, or never go up, along it.
NonDecreasing(targets) ==
    \A j \in 1 .. (Len(targets) - 1) : targets[j].level <= targets[j + 1].level

NonIncreasing(targets) ==
    \A j \in 1 .. (Len(targets) - 1) : targets[j].level >= targets[j + 1].level

\* C26 (as stated; violated by the reversal setups of an outside bar, which
\* list D-1's extreme before D-2's nearer one): in every emitted setup of a
\* valid pair the targets are in order of increasing distance: a bullish
\* setup's levels non-decreasing, a bearish setup's non-increasing.
C26_AsStated ==
    ValidPair(calc) =>
        \A i \in Calls :
            LET r == results[i]
            IN  /\ ~r.bullishSetup.empty => NonDecreasing(r.bullishSetup.targets)
                /\ ~r.bearishSetup.empty => NonIncreasing(r.bearishSetup.targets)

\* C27 (as stated; violated, for one, by a BULLISH setup whose invalidation
\* D-2 low equals the sweep level D-1 low): in every emitted setup of a
\* valid pair the invalidation lies strictly on the losing side of the sweep
\* level and of the whole entry zone: below both for a bullish setup, above
\* both for a bearish one.
C27_AsStated ==
    ValidPair(calc) =>
        \A i \in Calls :
            LET up == results[i].bullishSetup
                down == results[i].bearishSetup
            IN  /\ ~up.empty =>
                      /\ up.invalidation < Plain(up.sweepLevel)
                      /\ up.invalidation < Min(up.entryZone.from, up.entryZone.to)
                /\ ~down.empty =>
                      /\ down.invalidation > Plain(down.sweepLevel)
                      /\ down.invalidation > Max(down.entryZone.from, down.entryZone.to)

\* The ids of a stored history never go up along it: newest first.
NewestFirst(stored) ==
    \A j \in 1 .. (Len(stored) - 1) : stored[j].id >= stored[j + 1].id

\* C28: after any sequence of saveAnalysis, deleteEntry and clearHistory
\* calls the stored history holds at most 20 entries, newest first; a
\* saveAnalysis puts the new entry at the front and keeps the others in
\* their order, without the oldest one when 20 were already stored.
C28_HistoryCapped ==
    /\ [](Len(history) <= 20 /\ NewestFirst(history))
    /\ [][SaveAnalysis =>
            /\ history'[1].id = now
            /\ history'[1].data = StoredData
            /\ history'[1].analysis = StoredAnalysis
            /\ Tail(history') = IF Len(history) = 20
                                THEN SubSeq(history, 1, 19)
                                ELSE history]_vars

\* C28 witness: saveAnalysis was called on a full history of entries of
\* different ages, and 20 entries are stored, the new one first.
C28_Witness ==
    /\ called.method = "saveAnalysis"
    /\ called.full
    /\ Len(history) = 20
    /\ history[1].id = now
    /\ history[20].id < now

\* The entries of a stored history other than those with the given id, in
\* their order.
RECURSIVE Without(_, _)
Without(stored, id) ==
    IF stored = << >> THEN << >>
    ELSE IF Head(stored).id = id THEN Without(Tail(stored), id)
    ELSE <<Head(stored)>> \o Without(Tail(stored), id)

\* C29: deleteEntry(id) removes the entries whose id is id and leaves every
\* other entry and their order as they were, the whole history when no
\* entry has that id; clearHistory leaves the history empty; neither
\* changes the stored checklist state.
C29_DeleteAndClear ==
    [][/\ \A id \in EntryIds :
              DeleteEntry(id) =>
                  /\ history' = Without(history, id)
                  /\ (\A j \in 1 .. Len(history) : history[j].id # id)
                        => history' = history
                  /\ checklistState' = checklistState
       /\ ClearHistory =>
              /\ history' = << >>
              /\ checklistState' = checklistState]_vars

\* C29 witness: with checklist marks stored, deleteEntry has removed the
\* entries of one id from a history and left those of another.
C29_Witness ==
    /\ called.method = "deleteEntry"
    /\ called.id < now
    /\ history # << >>
    /\ \A j \in 1 .. Len(history) : history[j].id = now
    /\ checklistState.stored
    /\ checklistState.checked # {}

====
